---- MODULE Spec2Model ----
(***************************************************************************)
(* Model of lab1/hids.py: a host file-integrity baseline.  The baseline    *)
(* store `data` maps a path to a dictionary of recorded attributes; the    *)
(* actions add, hash (cksum), update and verify are run against the live   *)
(* file list and directory list of a filesystem that changes between the   *)
(* calls.                                                                  *)
(***************************************************************************)
EXTENDS Integers, Sequences, FiniteSets, TLC

VARIABLES fs, data, last, dirty, fsops, sha, db, proc

vars == <<fs, data, last, dirty, fsops, sha, db, proc>>

(* ------------------------------ bounds --------------------------------- *)

NumPaths == 2
MaxFsChanges == 1

Paths == 1..NumPaths
Ids == {0, 1000}
\* the user:group pairs chown is run with
Owners == {<<0, 0>>, <<1000, 1000>>}
PermBits == {420, 493}
Contents == {<<>>, <<1>>, <<2>>}

(* ------------------------- program constants --------------------------- *)

S_IFDIR == 16384
S_IFREG == 32768
S_IMODE_MASK == 4096
BUFSIZE == 16384

S_IMODE(mode) == mode % S_IMODE_MASK

(* ------------------------------ filesystem ----------------------------- *)

NoFile == [kind |-> "none", st_uid |-> 0, st_gid |-> 0, st_mode |-> 0, content |-> <<>>]

RegularFiles ==
    { [kind |-> "f", st_uid |-> u, st_gid |-> g, st_mode |-> S_IFREG + m, content |-> c] :
        u \in Ids, g \in Ids, m \in PermBits, c \in Contents }

DirectoryFiles ==
    { [kind |-> "d", st_uid |-> u, st_gid |-> g, st_mode |-> S_IFDIR + m, content |-> <<>>] :
        u \in Ids, g \in Ids, m \in PermBits }

\* what creat() and mkdir() make: owned by the creating process (root here),
\* permission bits 0o644 and 0o755 after the umask
NewFiles ==
    { f \in RegularFiles : f.st_uid = 0 /\ f.st_gid = 0 /\ S_IMODE(f.st_mode) = 420 }

NewDirectories ==
    { f \in DirectoryFiles : f.st_uid = 0 /\ f.st_gid = 0 /\ S_IMODE(f.st_mode) = 493 }

isfile(path) == fs[path].kind = "f"

isdir(path) == fs[path].kind = "d"

Range(s) == { s[i] : i \in 1..Len(s) }

\* the orderings of the subsets of S: sequences without repetition
RECURSIVE ListsOver(_)
ListsOver(S) ==
    {<<>>} \cup UNION { { <<x>> \o s : s \in ListsOver(S \ {x}) } : x \in S }

\* file_list as main builds it: paths that are regular files right now
file_lists == ListsOver({ p \in Paths : isfile(p) })

\* directory_list as main builds it: paths that are directories right now
directory_lists == ListsOver({ p \in Paths : isdir(p) })

(* ------------------------------ helpers -------------------------------- *)

RECURSIVE OctDigits(_)
OctDigits(n) == IF n < 8 THEN <<n>> ELSE Append(OctDigits(n \div 8), n % 8)

\* oct(): the text "0o" followed by the octal digits
oct(n) == <<"0o">> \o OctDigits(n)

\* dict.update(new)
DictUpdate(d, new) ==
    [ k \in DOMAIN d \cup DOMAIN new |-> IF k \in DOMAIN new THEN new[k] ELSE d[k] ]

\* del d[key]
DictDel(d, key) == [ k \in DOMAIN d \ {key} |-> d[k] ]

\* d[key] = value
DictSet(d, key, value) ==
    [ k \in DOMAIN d \cup {key} |-> IF k = key THEN value ELSE d[k] ]

dirdata(dpath) ==
    [ type |-> "d",
      uid  |-> fs[dpath].st_uid,
      gid  |-> fs[dpath].st_gid,
      mode |-> oct(S_IMODE(fs[dpath].st_mode)) ]

filedata(fpath) ==
    [ type |-> "f",
      uid  |-> fs[fpath].st_uid,
      gid  |-> fs[fpath].st_gid,
      mode |-> oct(S_IMODE(fs[fpath].st_mode)),
      size |-> Len(fs[fpath].content) ]

\* f.read(BUFSIZE) at offset off
ReadBlock(content, off) ==
    SubSeq(content, off + 1, IF off + BUFSIZE < Len(content) THEN off + BUFSIZE ELSE Len(content))

RECURSIVE s256_blocks(_, _, _)
s256_blocks(content, off, absorbed) ==
    LET buffer == ReadBlock(content, off)
    IN  IF Len(buffer) > 0
        THEN s256_blocks(content, off + Len(buffer), absorbed \o buffer)
        ELSE absorbed

\* the digest is a one-to-one image of the bytes absorbed (collision resistance)
hexdigest(absorbed) == <<"sha256", absorbed>>

sha256file(fpath) == hexdigest(s256_blocks(fs[fpath].content, 0, <<>>))

(* --------------------------- call outcomes ----------------------------- *)

NoOutcome ==
    [ op |-> "none", files |-> <<>>, directories |-> <<>>,
      after |-> "",
      r |-> FALSE, raised |-> FALSE,
      conflict |-> 0, failed |-> 0, why |-> "",
      db_files |-> 0, db_dirs |-> 0, hash_count |-> 0,
      new_count |-> 0, changed_count |-> 0,
      removed_hash_count |-> 0, removed_entry_count |-> 0,
      missing_count |-> 0, mismatch_count |-> 0, hash_changed_count |-> 0 ]

\* what a call remembers of the call before it: "add" or "update" when that
\* call succeeded on the same lists with no filesystem change in between
After(o) ==
    IF /\ last.op \in {"add", "update"}
       /\ last.r
       /\ ~dirty
       /\ last.files = o.files
       /\ last.directories = o.directories
    THEN last.op
    ELSE ""

(* ------------------------------ count ---------------------------------- *)

\* count with the directory counter reading the file type
count_typo(d) ==
    [ f |-> Cardinality({ e \in DOMAIN d : d[e].type = "f" }),
      d |-> Cardinality({ e \in DOMAIN d : d[e].type = "f" }) ]

count(d) ==
    [ f |-> Cardinality({ e \in DOMAIN d : d[e].type = "f" }),
      d |-> Cardinality({ e \in DOMAIN d : d[e].type = "d" }) ]

(* ------------------------------- add ----------------------------------- *)

\* add that skips a path already in the store and goes on with the rest
RECURSIVE add_files_skip(_, _, _)
add_files_skip(d, files, i) ==
    IF i > Len(files) THEN [ data |-> d, r |-> TRUE, conflict |-> 0 ]
    ELSE IF files[i] \notin DOMAIN d
         THEN add_files_skip(DictSet(d, files[i], filedata(files[i])), files, i + 1)
         ELSE [ add_files_skip(d, files, i + 1) EXCEPT !.r = FALSE, !.conflict = files[i] ]

RECURSIVE add_files(_, _, _)
add_files(d, files, i) ==
    IF i > Len(files) THEN [ data |-> d, r |-> TRUE, conflict |-> 0 ]
    ELSE IF files[i] \notin DOMAIN d
         THEN add_files(DictSet(d, files[i], filedata(files[i])), files, i + 1)
         ELSE [ data |-> d, r |-> FALSE, conflict |-> files[i] ]

RECURSIVE add_directories(_, _, _)
add_directories(d, directories, i) ==
    IF i > Len(directories) THEN [ data |-> d, r |-> TRUE, conflict |-> 0 ]
    ELSE IF directories[i] \notin DOMAIN d
         THEN add_directories(DictSet(d, directories[i], dirdata(directories[i])),
                              directories, i + 1)
         ELSE [ data |-> d, r |-> FALSE, conflict |-> directories[i] ]

\* print('add: success') and count(data, None, None) on success
add_done(b) ==
    IF b.r
    THEN [ data |-> b.data, r |-> TRUE, conflict |-> 0,
           db_files |-> count(b.data).f, db_dirs |-> count(b.data).d ]
    ELSE [ data |-> b.data, r |-> FALSE, conflict |-> b.conflict,
           db_files |-> 0, db_dirs |-> 0 ]

add_after_files(a, directories) ==
    IF a.r THEN add_directories(a.data, directories, 1) ELSE a

add(d, files, directories) ==
    add_done(add_after_files(add_files(d, files, 1), directories))

(* ------------------------------- hash ---------------------------------- *)

\* cksum without the check for a hash that is already there
RECURSIVE cksum_loop_rehash(_, _, _, _, _)
cksum_loop_rehash(d, files, i, hash_count, unreadable) ==
    IF i > Len(files)
    THEN [ data |-> d, r |-> TRUE, raised |-> FALSE, failed |-> 0, why |-> "",
           hash_count |-> hash_count ]
    ELSE LET fpath == files[i]
         IN  IF fpath \notin DOMAIN d
             THEN [ data |-> d, r |-> FALSE, raised |-> FALSE, failed |-> fpath,
                    why |-> "NotTracked", hash_count |-> hash_count ]
             ELSE IF fpath \in unreadable
             THEN [ data |-> d, r |-> FALSE, raised |-> TRUE, failed |-> fpath,
                    why |-> "IOError", hash_count |-> hash_count ]
             ELSE cksum_loop_rehash(
                     DictSet(d, fpath, DictSet(d[fpath], "hash", sha256file(fpath))),
                     files, i + 1, hash_count + 1, unreadable)

\* cksum that rewrites the whole entry from the file when it adds the hash
RECURSIVE cksum_loop_refresh(_, _, _, _, _)
cksum_loop_refresh(d, files, i, hash_count, unreadable) ==
    IF i > Len(files)
    THEN [ data |-> d, r |-> TRUE, raised |-> FALSE, failed |-> 0, why |-> "",
           hash_count |-> hash_count ]
    ELSE LET fpath == files[i]
         IN  IF fpath \notin DOMAIN d
             THEN [ data |-> d, r |-> FALSE, raised |-> FALSE, failed |-> fpath,
                    why |-> "NotTracked", hash_count |-> hash_count ]
             ELSE IF "hash" \in DOMAIN d[fpath]
             THEN [ data |-> d, r |-> FALSE, raised |-> FALSE, failed |-> fpath,
                    why |-> "AlreadyHashed", hash_count |-> hash_count ]
             ELSE IF fpath \in unreadable
             THEN [ data |-> d, r |-> FALSE, raised |-> TRUE, failed |-> fpath,
                    why |-> "IOError", hash_count |-> hash_count ]
             ELSE cksum_loop_refresh(
                     DictSet(d, fpath, DictSet(filedata(fpath), "hash", sha256file(fpath))),
                     files, i + 1, hash_count + 1, unreadable)

\* cksum that reports the first failing path and goes on with the rest
RECURSIVE cksum_loop_continue(_, _, _, _, _)
cksum_loop_continue(d, files, i, hash_count, unreadable) ==
    IF i > Len(files)
    THEN [ data |-> d, r |-> TRUE, raised |-> FALSE, failed |-> 0, why |-> "",
           hash_count |-> hash_count ]
    ELSE LET fpath == files[i]
             rest == cksum_loop_continue(d, files, i + 1, hash_count, unreadable)
         IN  IF fpath \notin DOMAIN d
             THEN [ rest EXCEPT !.r = FALSE, !.failed = fpath, !.why = "NotTracked" ]
             ELSE IF "hash" \in DOMAIN d[fpath]
             THEN [ rest EXCEPT !.r = FALSE, !.failed = fpath, !.why = "AlreadyHashed" ]
             ELSE IF fpath \in unreadable
             THEN [ rest EXCEPT !.r = FALSE, !.raised = TRUE, !.failed = fpath,
                                !.why = "IOError" ]
             ELSE cksum_loop_continue(
                     DictSet(d, fpath, DictSet(d[fpath], "hash", sha256file(fpath))),
                     files, i + 1, hash_count + 1, unreadable)

\* the loop of cksum from position i on; open() or read() of a path in
\* `unreadable` raises, and the exception leaves cksum before the assignment
RECURSIVE cksum_loop(_, _, _, _, _)
cksum_loop(d, files, i, hash_count, unreadable) ==
    IF i > Len(files)
    THEN [ data |-> d, r |-> TRUE, raised |-> FALSE, failed |-> 0, why |-> "",
           hash_count |-> hash_count ]
    ELSE LET fpath == files[i]
         IN  IF fpath \notin DOMAIN d
             THEN [ data |-> d, r |-> FALSE, raised |-> FALSE, failed |-> fpath,
                    why |-> "NotTracked", hash_count |-> hash_count ]
             ELSE IF "hash" \in DOMAIN d[fpath]
             THEN [ data |-> d, r |-> FALSE, raised |-> FALSE, failed |-> fpath,
                    why |-> "AlreadyHashed", hash_count |-> hash_count ]
             ELSE IF fpath \in unreadable
             THEN [ data |-> d, r |-> FALSE, raised |-> TRUE, failed |-> fpath,
                    why |-> "IOError", hash_count |-> hash_count ]
             ELSE cksum_loop(DictSet(d, fpath, DictSet(d[fpath], "hash", sha256file(fpath))),
                             files, i + 1, hash_count + 1, unreadable)

cksum(d, files, directories, unreadable) == cksum_loop(d, files, 1, 0, unreadable)

(* ------------------------------ update --------------------------------- *)

\* the removal pass looking at the file list only
to_remove_files_only(d, files, directories) ==
    { entry \in DOMAIN d : entry \notin Range(files) }

to_remove(d, files, directories) ==
    { entry \in DOMAIN d : entry \notin Range(files) /\ entry \notin Range(directories) }

\* change detection that compares the whole dictionaries
changed_whole(old, new_data) == old # new_data

\* for key in new_data: key not in old or old[key] != new_data[key]
changed(old, new_data) ==
    \E key \in DOMAIN new_data : key \notin DOMAIN old \/ old[key] # new_data[key]

\* hash cleared only when an attribute changed
update_file_entry_keep(old, new_data) ==
    LET merged == DictUpdate(old, new_data)
    IN  IF "hash" \in DOMAIN merged /\ old # merged THEN DictDel(merged, "hash") ELSE merged

\* the body of the files loop for a path already in the store
update_file_entry(old, new_data) ==
    LET merged == DictUpdate(old, new_data)
    IN  IF "hash" \in DOMAIN merged THEN DictDel(merged, "hash") ELSE merged

\* the body of the directories loop for a path already in the store
update_dir_entry(old, new_data) == DictUpdate(old, new_data)

RECURSIVE update_files(_, _, _)
update_files(o, files, i) ==
    IF i > Len(files) THEN o
    ELSE LET fpath == files[i]
         IN  IF fpath \notin DOMAIN o.data
             THEN update_files([ o EXCEPT !.data = DictSet(o.data, fpath, filedata(fpath)),
                                          !.new_count = @ + 1 ], files, i + 1)
             ELSE LET new_data == filedata(fpath)
                      old == o.data[fpath]
                  IN  update_files(
                        [ o EXCEPT !.data = DictSet(o.data, fpath, update_file_entry(old, new_data)),
                                   !.removed_hash_count =
                                       IF "hash" \in DOMAIN DictUpdate(old, new_data) THEN @ + 1 ELSE @,
                                   !.changed_count =
                                       IF changed(old, new_data) THEN @ + 1 ELSE @ ],
                        files, i + 1)

RECURSIVE update_directories(_, _, _)
update_directories(o, directories, i) ==
    IF i > Len(directories) THEN o
    ELSE LET dpath == directories[i]
         IN  IF dpath \notin DOMAIN o.data
             THEN update_directories([ o EXCEPT !.data = DictSet(o.data, dpath, dirdata(dpath)),
                                                !.new_count = @ + 1 ], directories, i + 1)
             ELSE LET new_data == dirdata(dpath)
                      old == o.data[dpath]
                  IN  update_directories(
                        [ o EXCEPT !.data = DictSet(o.data, dpath, update_dir_entry(old, new_data)),
                                   !.changed_count =
                                       IF changed(old, new_data) THEN @ + 1 ELSE @ ],
                        directories, i + 1)

update(d, files, directories) ==
    LET gone == to_remove(d, files, directories)
        o0 == [ data |-> [ e \in DOMAIN d \ gone |-> d[e] ],
                new_count |-> 0, changed_count |-> 0, removed_hash_count |-> 0,
                removed_entry_count |-> Cardinality(gone), r |-> TRUE ]
    IN  update_directories(update_files(o0, files, 1), directories, 1)

(* ------------------------------ verify --------------------------------- *)

\* attribute comparison that leaves out the permission bits
has_mismatch_no_mode(recorded, current) ==
    \E key \in DOMAIN current \ {"mode"} :
        key \in DOMAIN recorded /\ current[key] # recorded[key]

\* attribute comparison of the whole dictionaries
has_mismatch_strict(recorded, current) == recorded # current

\* for key in current: key in recorded and current[key] != recorded[key]
has_mismatch(recorded, current) ==
    \E key \in DOMAIN current : key \in DOMAIN recorded /\ current[key] # recorded[key]

\* the files loop counting a changed hash as one more attribute mismatch
RECURSIVE verify_files_conflate(_, _, _, _, _)
verify_files_conflate(d, o, files, i, unreadable) ==
    IF i > Len(files) THEN o
    ELSE LET fpath == files[i]
         IN  IF fpath \notin DOMAIN d
             THEN verify_files_conflate(d, [ o EXCEPT !.new_count = @ + 1 ], files, i + 1,
                                        unreadable)
             ELSE IF d[fpath].type # "f"
             THEN verify_files_conflate(d, [ o EXCEPT !.mismatch_count = @ + 1 ], files, i + 1,
                                        unreadable)
             ELSE LET o1 == IF has_mismatch(d[fpath], filedata(fpath))
                            THEN [ o EXCEPT !.mismatch_count = @ + 1 ] ELSE o
                  IN  IF "hash" \in DOMAIN d[fpath]
                      THEN IF fpath \in unreadable
                           THEN [ o1 EXCEPT !.raised = TRUE ]
                           ELSE IF sha256file(fpath) # d[fpath].hash
                           THEN verify_files_conflate(d, [ o1 EXCEPT !.mismatch_count = @ + 1 ],
                                                      files, i + 1, unreadable)
                           ELSE verify_files_conflate(d, o1, files, i + 1, unreadable)
                      ELSE verify_files_conflate(d, o1, files, i + 1, unreadable)

\* the files loop going on to the attribute and hash checks after a type mismatch
RECURSIVE verify_files_no_continue(_, _, _, _, _)
verify_files_no_continue(d, o, files, i, unreadable) ==
    IF i > Len(files) THEN o
    ELSE LET fpath == files[i]
         IN  IF fpath \notin DOMAIN d
             THEN verify_files_no_continue(d, [ o EXCEPT !.new_count = @ + 1 ], files, i + 1,
                                           unreadable)
             ELSE LET o0 == IF d[fpath].type # "f"
                            THEN [ o EXCEPT !.mismatch_count = @ + 1 ] ELSE o
                      o1 == IF \E key \in DOMAIN filedata(fpath) \ {"type"} :
                                  /\ key \in DOMAIN d[fpath]
                                  /\ filedata(fpath)[key] # d[fpath][key]
                            THEN [ o0 EXCEPT !.mismatch_count =
                                       IF d[fpath].type # "f" THEN @ ELSE @ + 1 ]
                            ELSE o0
                  IN  IF "hash" \in DOMAIN d[fpath]
                      THEN IF fpath \in unreadable
                           THEN [ o1 EXCEPT !.raised = TRUE ]
                           ELSE IF sha256file(fpath) # d[fpath].hash
                           THEN verify_files_no_continue(
                                    d, [ o1 EXCEPT !.hash_changed_count = @ + 1 ],
                                    files, i + 1, unreadable)
                           ELSE verify_files_no_continue(d, o1, files, i + 1, unreadable)
                      ELSE verify_files_no_continue(d, o1, files, i + 1, unreadable)

RECURSIVE verify_files(_, _, _, _, _)
verify_files(d, o, files, i, unreadable) ==
    IF i > Len(files) THEN o
    ELSE LET fpath == files[i]
         IN  IF fpath \notin DOMAIN d
             THEN verify_files(d, [ o EXCEPT !.new_count = @ + 1 ], files, i + 1, unreadable)
             ELSE IF d[fpath].type # "f"
             THEN verify_files(d, [ o EXCEPT !.mismatch_count = @ + 1 ], files, i + 1, unreadable)
             ELSE LET o1 == IF has_mismatch(d[fpath], filedata(fpath))
                            THEN [ o EXCEPT !.mismatch_count = @ + 1 ] ELSE o
                  IN  IF "hash" \in DOMAIN d[fpath]
                      THEN IF fpath \in unreadable
                           THEN [ o1 EXCEPT !.raised = TRUE ]
                           ELSE IF sha256file(fpath) # d[fpath].hash
                           THEN verify_files(d, [ o1 EXCEPT !.hash_changed_count = @ + 1 ],
                                             files, i + 1, unreadable)
                           ELSE verify_files(d, o1, files, i + 1, unreadable)
                      ELSE verify_files(d, o1, files, i + 1, unreadable)

\* the directories loop with the type test of the files loop
RECURSIVE verify_directories_typo(_, _, _, _)
verify_directories_typo(d, o, directories, i) ==
    IF i > Len(directories) THEN o
    ELSE LET dpath == directories[i]
         IN  IF dpath \notin DOMAIN d
             THEN verify_directories_typo(d, [ o EXCEPT !.new_count = @ + 1 ],
                                          directories, i + 1)
             ELSE IF d[dpath].type # "f"
             THEN verify_directories_typo(d, [ o EXCEPT !.mismatch_count = @ + 1 ],
                                          directories, i + 1)
             ELSE verify_directories_typo(d,
                     IF has_mismatch(d[dpath], dirdata(dpath))
                     THEN [ o EXCEPT !.mismatch_count = @ + 1 ] ELSE o,
                     directories, i + 1)

RECURSIVE verify_directories(_, _, _, _)
verify_directories(d, o, directories, i) ==
    IF i > Len(directories) THEN o
    ELSE LET dpath == directories[i]
         IN  IF dpath \notin DOMAIN d
             THEN verify_directories(d, [ o EXCEPT !.new_count = @ + 1 ], directories, i + 1)
             ELSE IF d[dpath].type # "d"
             THEN verify_directories(d, [ o EXCEPT !.mismatch_count = @ + 1 ], directories, i + 1)
             ELSE verify_directories(d,
                     IF has_mismatch(d[dpath], dirdata(dpath))
                     THEN [ o EXCEPT !.mismatch_count = @ + 1 ] ELSE o,
                     directories, i + 1)

\* a verify that drops the entries it reports missing
verify_store_prune(d, files, directories) ==
    [ e \in DOMAIN d \ to_remove(d, files, directories) |-> d[e] ]

\* the store verify leaves behind: it only reads `data`
verify_store(d, files, directories) == d

\* the total without the hash changes
total_issues_no_hash(o) == o.missing_count + o.new_count + o.mismatch_count

total_issues(o) ==
    o.missing_count + o.new_count + o.mismatch_count + o.hash_changed_count

\* the summary and the return value
verify_done(o) == IF o.raised THEN o ELSE [ o EXCEPT !.r = ~(total_issues(o) > 0) ]

verify_after_files(d, o, directories) ==
    IF o.raised THEN o ELSE verify_directories(d, o, directories, 1)

verify(d, files, directories, unreadable) ==
    verify_done(
      verify_after_files(d,
        verify_files(d,
          [ data |-> verify_store(d, files, directories), r |-> FALSE, raised |-> FALSE,
            missing_count |-> Cardinality(to_remove(d, files, directories)),
            new_count |-> 0, mismatch_count |-> 0, hash_changed_count |-> 0 ],
          files, 1, unreadable),
        directories))

(* ------------------------------ state ---------------------------------- *)

\* sha256file is not running
ShaIdle ==
    [ pc |-> "idle", fpath |-> 0, off |-> 0, buffer |-> <<>>, absorbed |-> <<>>,
      open |-> FALSE, result |-> <<>> ]

\* args.database is not a file
NoDatabase == [ isfile |-> FALSE, text |-> {} ]

\* the program has not been run
NotRun == [ action |-> "none", returned |-> 0, status |-> 0, saved |-> FALSE ]

Init ==
    /\ fs \in [Paths -> {NoFile} \cup NewFiles \cup NewDirectories]
    /\ data = <<>>
    /\ last = NoOutcome
    /\ dirty = FALSE
    /\ fsops = 0
    /\ sha = ShaIdle
    /\ db = NoDatabase
    /\ proc = NotRun

\* bookkeeping common to every call of an action of the program
Called(o) ==
    /\ last' = [ o EXCEPT !.after = After(o) ]
    /\ dirty' = FALSE
    /\ UNCHANGED <<fs, fsops>>

\* at most one path of the file list fails to open or read during a call
unreadable_sets(files) == {{}} \cup { {p} : p \in Range(files) }

Add ==
    \E files \in file_lists, directories \in directory_lists :
        \E o \in {add(data, files, directories)} :
            /\ data' = o.data
            /\ Called([ NoOutcome EXCEPT !.op = "add", !.files = files,
                            !.directories = directories, !.r = o.r,
                            !.conflict = o.conflict,
                            !.db_files = o.db_files, !.db_dirs = o.db_dirs ])
            /\ UNCHANGED <<sha, db, proc>>

Hash ==
    \E files \in file_lists, directories \in directory_lists :
      \E unreadable \in unreadable_sets(files) :
        \E o \in {cksum(data, files, directories, unreadable)} :
            /\ data' = o.data
            /\ Called([ NoOutcome EXCEPT !.op = "hash", !.files = files,
                            !.directories = directories,
                            !.r = o.r, !.raised = o.raised, !.failed = o.failed,
                            !.why = o.why, !.hash_count = o.hash_count ])
            /\ UNCHANGED <<sha, db, proc>>

Update ==
    \E files \in file_lists, directories \in directory_lists :
        \E o \in {update(data, files, directories)} :
            /\ data' = o.data
            /\ Called([ NoOutcome EXCEPT !.op = "update", !.files = files,
                            !.directories = directories, !.r = o.r,
                            !.new_count = o.new_count, !.changed_count = o.changed_count,
                            !.removed_hash_count = o.removed_hash_count,
                            !.removed_entry_count = o.removed_entry_count ])
            /\ UNCHANGED <<sha, db, proc>>

Verify ==
    \E files \in file_lists, directories \in directory_lists :
      \E unreadable \in unreadable_sets(files) :
        \E o \in {verify(data, files, directories, unreadable)} :
            /\ data' = o.data
            /\ Called([ NoOutcome EXCEPT !.op = "verify", !.files = files,
                            !.directories = directories,
                            !.r = o.r, !.raised = o.raised,
                            !.missing_count = o.missing_count, !.new_count = o.new_count,
                            !.mismatch_count = o.mismatch_count,
                            !.hash_changed_count = o.hash_changed_count ])
            /\ UNCHANGED <<sha, db, proc>>

(* ----------------- the filesystem changing between calls --------------- *)

FsChanged(path, f) ==
    /\ fsops < MaxFsChanges
    /\ fsops' = fsops + 1
    /\ fs' = [ fs EXCEPT ![path] = f ]
    /\ dirty' = TRUE
    /\ UNCHANGED <<data, last, sha, db, proc>>

CreateFile == \E p \in Paths, f \in NewFiles : fs[p].kind = "none" /\ FsChanged(p, f)

Mkdir == \E p \in Paths, f \in NewDirectories : fs[p].kind = "none" /\ FsChanged(p, f)

Remove == \E p \in Paths : fs[p].kind # "none" /\ FsChanged(p, NoFile)

\* rm then mkdir at the same path, between two calls
ReplaceWithDirectory ==
    \E p \in Paths, f \in NewDirectories : fs[p].kind = "f" /\ FsChanged(p, f)

\* rmdir then creat at the same path, between two calls
ReplaceWithFile ==
    \E p \in Paths, f \in NewFiles : fs[p].kind = "d" /\ FsChanged(p, f)

Chmod ==
    \E p \in Paths, m \in PermBits :
        /\ fs[p].kind # "none"
        /\ S_IMODE(fs[p].st_mode) # m
        /\ FsChanged(p, [ fs[p] EXCEPT !.st_mode = (@ - S_IMODE(@)) + m ])

Chown ==
    \E p \in Paths, o \in Owners :
        /\ fs[p].kind # "none"
        /\ o # <<fs[p].st_uid, fs[p].st_gid>>
        /\ FsChanged(p, [ fs[p] EXCEPT !.st_uid = o[1], !.st_gid = o[2] ])

WriteFile ==
    \E p \in Paths, c \in Contents :
        /\ fs[p].kind = "f"
        /\ c # fs[p].content
        /\ FsChanged(p, [ fs[p] EXCEPT !.content = c ])

Next ==
    \/ Add
    \/ Hash
    \/ Update
    \/ Verify
    \/ CreateFile
    \/ Mkdir
    \/ Remove
    \/ ReplaceWithDirectory
    \/ ReplaceWithFile
    \/ Chmod
    \/ Chown
    \/ WriteFile

Spec == Init /\ [][Next]_vars

(* -------------------- sha256file, statement by statement --------------- *)

ShaStep(next) ==
    /\ sha' = next
    /\ UNCHANGED <<fs, data, last, dirty, fsops, db, proc>>

\* assert os.path.isfile(fpath); s256 = hashlib.sha256()
ShaCall ==
    \E fpath \in Paths :
        /\ sha.pc = "idle"
        /\ isfile(fpath)
        /\ ShaStep([ ShaIdle EXCEPT !.pc = "open", !.fpath = fpath ])

\* f = open(fpath, 'rb')
ShaOpen ==
    /\ sha.pc = "open"
    /\ ShaStep([ sha EXCEPT !.pc = "read", !.open = TRUE ])

\* open raises OSError: there is no handle
ShaOpenFails ==
    /\ sha.pc = "open"
    /\ ShaStep([ sha EXCEPT !.pc = "raised" ])

\* buffer = f.read(BUFSIZE)
ShaRead ==
    /\ sha.pc = "read"
    /\ ShaStep([ sha EXCEPT !.pc = "while",
                            !.buffer = ReadBlock(fs[sha.fpath].content, sha.off),
                            !.off = @ + Len(ReadBlock(fs[sha.fpath].content, sha.off)) ])

\* f.read raises OSError: the exception leaves sha256file at once
ShaReadFails ==
    /\ sha.pc = "read"
    /\ ShaStep([ sha EXCEPT !.pc = "raised" ])

\* while len(buffer) > 0: s256.update(buffer)
ShaWhile ==
    /\ sha.pc = "while"
    /\ IF Len(sha.buffer) > 0
       THEN ShaStep([ sha EXCEPT !.pc = "read", !.absorbed = @ \o sha.buffer ])
       ELSE ShaStep([ sha EXCEPT !.pc = "close" ])

\* f.close()
ShaClose ==
    /\ sha.pc = "close"
    /\ ShaStep([ sha EXCEPT !.pc = "return", !.open = FALSE ])

\* return s256.hexdigest()
ShaReturn ==
    /\ sha.pc = "return"
    /\ ShaStep([ sha EXCEPT !.pc = "done", !.result = hexdigest(sha.absorbed) ])

\* the caller goes on to its next call of sha256file
ShaNext ==
    /\ sha.pc = "done"
    /\ ShaStep(ShaIdle)

NextHash ==
    \/ ShaCall
    \/ ShaOpen
    \/ ShaOpenFails
    \/ ShaRead
    \/ ShaReadFails
    \/ ShaWhile
    \/ ShaClose
    \/ ShaReturn
    \/ ShaNext

SpecHash == Init /\ [][NextHash]_vars

(* ======================= properties of the actions ===================== *)

live(o) == Range(o.files) \cup Range(o.directories)

\* the step is a call of the action `op`; last' is its outcome, data the store
\* before it and data' the store after it
IsCall(op) == fsops' = fsops /\ last'.op = op

\* the attributes of a live path as they are on disk now
current(p) == IF isfile(p) THEN filedata(p) ELSE dirdata(p)

(* ------------------------------- C1 ------------------------------------ *)

\* C1: verify never mutates the baseline store: the store after a verify call,
\* clean or not, equals the store before it.
Thm_C1_VerifyReadOnly == [][ IsCall("verify") => data' = data ]_vars

\* verify has reported a mismatch and a missing entry on a populated store
Wit_C1_VerifyReadOnly ==
    /\ last.op = "verify"
    /\ ~last.r
    /\ last.mismatch_count > 0
    /\ last.missing_count > 0
    /\ DOMAIN data # {}

(* ------------------------------- C2 ------------------------------------ *)

\* C2: in every reachable state no store entry of type 'd' carries a hash.
Cex_C2_NoHashOnDirectory ==
    \A p \in DOMAIN data : data[p].type = "d" => "hash" \notin DOMAIN data[p]

(* ------------------------------- C3 ------------------------------------ *)

\* C3: in every reachable state no store entry of type 'd' carries a size.
Cex_C3_NoSizeOnDirectory ==
    \A p \in DOMAIN data : data[p].type = "d" => "size" \notin DOMAIN data[p]

(* ------------------------------- C4 ------------------------------------ *)

\* files then directories, the order add processes them in
add_order(o) == o.files \o o.directories

Min(S) == CHOOSE x \in S : \A y \in S : x <= y

\* C4: add never overwrites an existing entry; at the first path of its order
\* that is already a store key it returns failure, the paths before it are in
\* the store, the conflicting entry is unchanged and no later path is inserted.
Thm_C4_AddAbortsAtFirstConflict ==
    [][ IsCall("add") =>
          LET order == add_order(last')
              conflicts == { i \in 1..Len(order) : order[i] \in DOMAIN data }
          IN  /\ \A p \in DOMAIN data : p \in DOMAIN data' /\ data'[p] = data[p]
              /\ conflicts # {} =>
                   LET k == Min(conflicts)
                   IN  /\ ~last'.r
                       /\ last'.conflict = order[k]
                       /\ \A i \in 1..(k - 1) : order[i] \in DOMAIN data'
                       /\ data'[order[k]] = data[order[k]]
                       /\ \A i \in (k + 1)..Len(order) :
                            order[i] \in DOMAIN data' <=> order[i] \in DOMAIN data
    ]_vars

\* add has failed at the first path of a two-path order, and the path after the
\* conflicting one is not in the store
Wit_C4_AddAbortsAtFirstConflict ==
    /\ last.op = "add"
    /\ ~last.r
    /\ Len(add_order(last)) >= 2
    /\ last.conflict = add_order(last)[1]
    /\ add_order(last)[2] \notin DOMAIN data

(* ------------------------------- C5 ------------------------------------ *)

\* C5: hashing is one-shot: a hash call on a file path absent from the store
\* fails (NotTracked) and on a path that already has a hash fails
\* (AlreadyHashed); either way the entry of that path is unchanged.
Thm_C5_HashOneShot ==
    [][ IsCall("hash") =>
          /\ \A p \in Range(last'.files) :
               (p \notin DOMAIN data \/ "hash" \in DOMAIN data[p]) =>
                   /\ ~last'.r
                   /\ p \in DOMAIN data' <=> p \in DOMAIN data
                   /\ p \in DOMAIN data => data'[p] = data[p]
          /\ Len(last'.files) > 0 =>
               LET p == last'.files[1]
               IN  /\ p \notin DOMAIN data =>
                        last'.failed = p /\ last'.why = "NotTracked"
                   /\ (p \in DOMAIN data /\ "hash" \in DOMAIN data[p]) =>
                        last'.failed = p /\ last'.why = "AlreadyHashed"
    ]_vars

\* a second hash call on a path has failed and the path still carries the hash
\* of its content
Wit_C5_HashOneShot ==
    /\ last.op = "hash"
    /\ ~last.r
    /\ last.why = "AlreadyHashed"
    /\ "hash" \in DOMAIN data[last.failed]

(* ------------------------------- C6 ------------------------------------ *)

\* the four kinds of discrepancy between a store and the live paths, stated on
\* the store and the filesystem
Discrepancy(d, o) ==
    \/ \E k \in DOMAIN d : k \notin live(o)
    \/ \E p \in live(o) : p \notin DOMAIN d
    \/ \E p \in live(o) \cap DOMAIN d :
         \/ d[p].type # current(p).type
         \/ \E key \in DOMAIN current(p) \cap DOMAIN d[p] : d[p][key] # current(p)[key]
    \/ \E p \in Range(o.files) \cap DOMAIN d :
         "hash" \in DOMAIN d[p] /\ d[p].hash # <<"sha256", fs[p].content>>

\* C6: verify returns clean only if the missing, new, mismatch and hash-changed
\* counts are all zero, and it returns failure whenever a store key is not
\* live, a live path is not in the store, a recorded attribute or kind differs
\* from the current one, or a recorded hash differs from the recomputed one.
Thm_C6_VerifyCleanOnlyIfNoDiscrepancy ==
    (last.op = "verify" /\ ~dirty) =>
        /\ last.r => /\ last.missing_count = 0
                     /\ last.new_count = 0
                     /\ last.mismatch_count = 0
                     /\ last.hash_changed_count = 0
        /\ Discrepancy(data, last) => ~last.r

\* verify has failed on a changed hash alone
Wit_C6_VerifyCleanOnlyIfNoDiscrepancy ==
    /\ last.op = "verify"
    /\ ~dirty
    /\ ~last.r
    /\ last.hash_changed_count = 1
    /\ last.missing_count = 0
    /\ last.new_count = 0
    /\ last.mismatch_count = 0

(* ------------------------------- C7 ------------------------------------ *)

\* a field of the current attributes is absent from, or differs in, the entry
AttributesDiffer(entry, p) ==
    \E key \in DOMAIN current(p) : key \notin DOMAIN entry \/ entry[key] # current(p)[key]

\* C7: update clears the hash of every live file path that was tracked with a
\* hash, counts each once as a removed hash, and counts as changed only the
\* entries whose attributes differ, so a hashed file with no attribute change
\* loses its hash without adding to the changed counter.
Thm_C7_UpdateClearsHash ==
    [][ IsCall("update") =>
          LET hashed == { p \in Range(last'.files) :
                            p \in DOMAIN data /\ "hash" \in DOMAIN data[p] }
          IN  /\ \A p \in hashed : "hash" \notin DOMAIN data'[p]
              /\ last'.removed_hash_count = Cardinality(hashed)
              /\ last'.changed_count =
                   Cardinality({ p \in live(last') \cap DOMAIN data :
                                   AttributesDiffer(data[p], p) })
    ]_vars

\* update has cleared one hash and found no entry changed
Wit_C7_UpdateClearsHash ==
    /\ last.op = "update"
    /\ last.removed_hash_count = 1
    /\ last.changed_count = 0
    /\ last.new_count = 0

(* ------------------------------- C8 ------------------------------------ *)

\* C8: update deletes exactly the store keys absent from both live lists, the
\* removed-entry counter is their number, and afterwards the store's key set
\* is the union of the live file paths and the live directory paths.
Thm_C8_UpdateKeysAgree ==
    [][ IsCall("update") =>
          LET gone == { k \in DOMAIN data : k \notin live(last') }
          IN  /\ DOMAIN data \ DOMAIN data' = gone
              /\ last'.removed_entry_count = Cardinality(gone)
              /\ DOMAIN data' = live(last')
    ]_vars

\* update has deleted exactly one tracked path and kept another
Wit_C8_UpdateKeysAgree ==
    /\ last.op = "update"
    /\ last.removed_entry_count = 1
    /\ last.new_count = 0
    /\ DOMAIN data # {}

(* ------------------------------- C9 ------------------------------------ *)

\* C9: update is idempotent: a second update on the same lists with no
\* filesystem change in between reports no new, changed or removed entry and
\* leaves the store as the first update left it.
Thm_C9_UpdateIdempotent ==
    [][ (IsCall("update") /\ last'.after = "update") =>
          /\ last'.new_count = 0
          /\ last'.changed_count = 0
          /\ last'.removed_entry_count = 0
          /\ data' = data
    ]_vars

\* a second update has run right after a first one on a store with entries
Wit_C9_UpdateIdempotent ==
    /\ last.op = "update"
    /\ last.after = "update"
    /\ Cardinality(DOMAIN data) = NumPaths

(* ------------------------------- C10 ----------------------------------- *)

VerifyClean(o) ==
    /\ o.r
    /\ o.missing_count = 0
    /\ o.new_count = 0
    /\ o.mismatch_count = 0
    /\ o.hash_changed_count = 0

\* C10 as stated: after a successful add, a verify over the same lists with an
\* unchanged filesystem returns clean.
Cex_C10_AddThenVerifyClean ==
    (last.op = "verify" /\ last.after = "add") => VerifyClean(last)

\* C10 amended: after a successful add to a store that held no other entry, so
\* that every store key is in the lists, a verify over the same lists with an
\* unchanged filesystem returns clean.
Thm_C10_AddToEmptyThenVerifyClean ==
    (last.op = "verify" /\ last.after = "add" /\ DOMAIN data = live(last)) =>
        VerifyClean(last)

\* verify has run right after an add of a file and a directory to an empty store
Wit_C10_AddToEmptyThenVerifyClean ==
    /\ last.op = "verify"
    /\ last.after = "add"
    /\ DOMAIN data = live(last)
    /\ Len(last.files) > 0
    /\ Len(last.directories) > 0

(* ------------------------------- C11 ----------------------------------- *)

\* verify has returned and neither store nor filesystem changed since
Verified == last.op = "verify" /\ ~dirty /\ ~last.raised

\* tracked paths of the lists whose recorded kind is not their kind on disk
TypeStale(d, o) == { p \in live(o) \cap DOMAIN d : d[p].type # current(p).type }

\* tracked paths of the lists with the recorded kind and a recorded attribute
\* that differs from the one on disk
AttrStale(d, o) ==
    { p \in (live(o) \cap DOMAIN d) \ TypeStale(d, o) :
        \E key \in DOMAIN current(p) \cap DOMAIN d[p] : d[p][key] # current(p)[key] }

\* tracked files of the file list with the recorded kind and a recorded hash
\* that is not the digest of the bytes on disk
HashStale(d, o) ==
    { p \in (Range(o.files) \cap DOMAIN d) \ TypeStale(d, o) :
        "hash" \in DOMAIN d[p] /\ d[p].hash # <<"sha256", fs[p].content>> }

\* C11: a hashed file whose content changed is counted once in the
\* hash-changed counter and not in the mismatch counter; when its size changed
\* too, the size change is counted once in the mismatch counter and the hash
\* change once in the hash-changed counter.
Thm_C11_HashChangeCountedApart ==
    Verified =>
        /\ last.hash_changed_count = Cardinality(HashStale(data, last))
        /\ last.mismatch_count =
               Cardinality(TypeStale(data, last) \cup AttrStale(data, last))
        /\ \A p \in HashStale(data, last) :
               (live(last) \cap DOMAIN data = {p}) =>
                   /\ last.hash_changed_count = 1
                   /\ (data[p].size # Len(fs[p].content)) => last.mismatch_count = 1
                   /\ (p \notin AttrStale(data, last)) => last.mismatch_count = 0

\* verify of one hashed file whose content and size changed: one hash change
\* and one mismatch
Wit_C11_HashChangeCountedApart ==
    /\ Verified
    /\ \E p \in HashStale(data, last) :
          /\ live(last) = {p}
          /\ DOMAIN data = {p}
          /\ data[p].size # Len(fs[p].content)
    /\ last.hash_changed_count = 1
    /\ last.mismatch_count = 1

(* ------------------------------- C12 ----------------------------------- *)

\* the store is what add recorded for the lists, except that the permission
\* bits of file p on disk are no longer the recorded ones
OnlyModeChanged(p) ==
    /\ DOMAIN data = live(last)
    /\ p \in Range(last.files)
    /\ data[p] = [ filedata(p) EXCEPT !.mode = data[p].mode ]
    /\ data[p].mode # filedata(p).mode
    /\ \A q \in live(last) \ {p} : data[q] = current(q)

\* C12: after add, a change of the permission bits of one tracked file and
\* nothing else makes verify report exactly one mismatch, no hash change, no
\* missing and no new entry, and fail; a path adds at most one to the mismatch
\* counter however many of its attributes differ.
Thm_C12_ModeChangeOneMismatch ==
    Verified =>
        /\ \A p \in Range(last.files) :
               OnlyModeChanged(p) =>
                   /\ last.mismatch_count = 1
                   /\ last.hash_changed_count = 0
                   /\ last.missing_count = 0
                   /\ last.new_count = 0
                   /\ ~last.r
        /\ last.mismatch_count <= Cardinality(live(last) \cap DOMAIN data)
        /\ (\E p \in live(last) \cap DOMAIN data : data[p].type = current(p).type
                /\ \E key \in DOMAIN current(p) \cap DOMAIN data[p] :
                       data[p][key] # current(p)[key])
              => last.mismatch_count >= 1

\* verify has run after the permission bits of one of two tracked files changed
Wit_C12_ModeChangeOneMismatch ==
    /\ Verified
    /\ Len(last.files) = 2
    /\ \E p \in Range(last.files) : OnlyModeChanged(p)

(* ------------------------------- C14 ----------------------------------- *)

TypeCount(d, t) == Cardinality({ p \in DOMAIN d : d[p].type = t })

\* C14 as stated: on a successful add the reported file and directory counts
\* are the numbers of files and directories the call inserted, whatever the
\* store held before.
Cex_C14_AddCountsInserted ==
    [][ (IsCall("add") /\ last'.r) =>
          /\ last'.db_files = Len(last'.files)
          /\ last'.db_dirs = Len(last'.directories)
    ]_vars

\* C14 amended: on a successful add the reported counts are the numbers of file
\* and directory entries of the whole store: the numbers the call inserted plus
\* the numbers of file and directory entries the store held before.
Thm_C14_AddCountsDatabase ==
    [][ (IsCall("add") /\ last'.r) =>
          /\ DOMAIN data' \ DOMAIN data = live(last')
          /\ last'.db_files = Len(last'.files) + TypeCount(data, "f")
          /\ last'.db_dirs = Len(last'.directories) + TypeCount(data, "d")
    ]_vars

\* a successful add of a file and a directory
Wit_C14_AddCountsDatabase ==
    /\ last.op = "add"
    /\ last.r
    /\ Len(last.files) = 1
    /\ Len(last.directories) = 1
    /\ last.db_files = 1
    /\ last.db_dirs = 1

(* ------------------------------- C15 ----------------------------------- *)

\* C15: add, hash and verify leave the 'type' of every entry that was in the
\* store unchanged, whatever the kind of the live path.
Thm_C15_TypeChangedOnlyByUpdate ==
    [][ (IsCall("add") \/ IsCall("hash") \/ IsCall("verify")) =>
          \A p \in DOMAIN data : p \in DOMAIN data' /\ data'[p].type = data[p].type
    ]_vars

\* hash has given a hash to a path recorded as a directory that is a file now
Wit_C15_TypeChangedOnlyByUpdate ==
    /\ last.op = "hash"
    /\ last.r
    /\ ~dirty
    /\ \E p \in Range(last.files) : data[p].type = "d" /\ "hash" \in DOMAIN data[p]

(* ------------------------------- C16 ----------------------------------- *)

\* C16: in verify a live path whose recorded kind is not its kind on disk adds
\* exactly one to the mismatch counter and nothing else is compared for it: no
\* attribute, and no hash, so it never adds to the hash-changed counter and its
\* file is never read, also when the entry carries a hash.
Thm_C16_TypeMismatchShortCircuits ==
    (last.op = "verify" /\ ~dirty) =>
        /\ last.raised =>
               \E p \in (Range(last.files) \cap DOMAIN data) \ TypeStale(data, last) :
                   "hash" \in DOMAIN data[p]
        /\ ~last.raised =>
               /\ last.mismatch_count =
                      Cardinality(TypeStale(data, last)) + Cardinality(AttrStale(data, last))
               /\ last.hash_changed_count <=
                      Cardinality((Range(last.files) \cap DOMAIN data) \ TypeStale(data, last))
               /\ (live(last) \cap DOMAIN data = TypeStale(data, last)) =>
                      last.hash_changed_count = 0

\* verify has reported one type mismatch and nothing else for a live file whose
\* entry is recorded as a directory and carries a hash
Wit_C16_TypeMismatchShortCircuits ==
    /\ Verified
    /\ \E p \in Range(last.files) :
          /\ live(last) = {p}
          /\ DOMAIN data = {p}
          /\ data[p].type = "d"
          /\ "hash" \in DOMAIN data[p]
    /\ last.mismatch_count = 1
    /\ last.hash_changed_count = 0

(* ------------------------------- C17 ----------------------------------- *)

Index(seq, x) == CHOOSE i \in 1..Len(seq) : seq[i] = x

\* C17: a hash call that fails at path p (not tracked, already hashed, or an
\* I/O failure reading p) leaves the entry of p as it was, gives no hash to a
\* path after p in the list, and keeps the hashes it gave to the paths before p.
Thm_C17_HashAbortsAtFirstFailure ==
    [][ (IsCall("hash") /\ ~last'.r) =>
          /\ last'.failed \in Range(last'.files)
          /\ LET files == last'.files
                 k == Index(files, last'.failed)
             IN  /\ \A i \in 1..(k - 1) :
                        /\ "hash" \notin DOMAIN data[files[i]]
                        /\ data'[files[i]] =
                               DictSet(data[files[i]], "hash",
                                       <<"sha256", fs[files[i]].content>>)
                 /\ \A i \in k..Len(files) :
                        /\ files[i] \in DOMAIN data' <=> files[i] \in DOMAIN data
                        /\ files[i] \in DOMAIN data => data'[files[i]] = data[files[i]]
                 /\ last'.hash_count = k - 1
    ]_vars

\* hash has failed reading the second of two files: the first has its hash,
\* the second has none
Wit_C17_HashAbortsAtFirstFailure ==
    /\ last.op = "hash"
    /\ last.raised
    /\ last.why = "IOError"
    /\ Len(last.files) = 2
    /\ last.failed = last.files[2]
    /\ "hash" \in DOMAIN data[last.files[1]]
    /\ "hash" \notin DOMAIN data[last.files[2]]

(* ------------------------------- C18 ----------------------------------- *)

\* C18: update followed by verify on the same lists with no filesystem change
\* in between returns clean, also when a tracked path changed kind or carried
\* a hash before the update.
Thm_C18_UpdateThenVerifyClean ==
    (last.op = "verify" /\ last.after = "update") =>
        /\ ~last.raised
        /\ VerifyClean(last)

\* verify has run right after an update that turned a hashed file entry into a
\* directory entry
Wit_C18_UpdateThenVerifyClean ==
    /\ last.op = "verify"
    /\ last.after = "update"
    /\ \E p \in Range(last.directories) :
          data[p].type = "d" /\ "hash" \in DOMAIN data[p]

(* -------------------- main: load, run one action, save ----------------- *)

\* json.dumps: the object as its members, each a key with the members of its
\* dictionary
json_dumps(dict) ==
    { <<path, { <<key, dict[path][key]>> : key \in DOMAIN dict[path] }>> :
        path \in DOMAIN dict }

Member(members, name) == (CHOOSE m \in members : m[1] = name)[2]

\* json.loads: the dictionary of dictionaries the members stand for
json_loads(text) ==
    [ path \in { m[1] : m \in text } |->
        [ key \in { m[1] : m \in Member(text, path) } |->
            Member(Member(text, path), key) ] ]

save_db(dict) == [ isfile |-> TRUE, text |-> json_dumps(dict) ]

read_db(dbfile) == json_loads(dbfile.text)

\* data = read_db(...) when the database is a file, else {}
loaded == IF db.isfile THEN read_db(db) ELSE <<>>

\* the exit status of the process: main's return value is dropped by the bare
\* call `main()`, so the status is 0 unless an exception ends the program
exit_status(returned, raised) == IF raised THEN 1 ELSE 0

\* what main does with the result r of the action it ran on `loaded`
MainRan(action, o, raised) ==
    /\ data' = o.data
    /\ db' = IF o.r THEN save_db(o.data) ELSE db
    /\ proc' = [ action |-> action,
                 returned |-> IF o.r THEN 0 ELSE 1,
                 status |-> exit_status(IF o.r THEN 0 ELSE 1, raised),
                 saved |-> o.r ]
    /\ UNCHANGED sha

MainCount ==
    \E files \in file_lists, directories \in directory_lists :
        \E o \in {[ data |-> loaded, r |-> TRUE, c |-> count(loaded) ]} :
            /\ MainRan("count", o, FALSE)
            /\ Called([ NoOutcome EXCEPT !.op = "count", !.files = files,
                            !.directories = directories, !.r = o.r,
                            !.db_files = o.c.f, !.db_dirs = o.c.d ])

MainAdd ==
    \E files \in file_lists, directories \in directory_lists :
        \E o \in {add(loaded, files, directories)} :
            /\ MainRan("add", o, FALSE)
            /\ Called([ NoOutcome EXCEPT !.op = "add", !.files = files,
                            !.directories = directories, !.r = o.r,
                            !.conflict = o.conflict,
                            !.db_files = o.db_files, !.db_dirs = o.db_dirs ])

MainHash ==
    \E files \in file_lists, directories \in directory_lists :
      \E unreadable \in unreadable_sets(files) :
        \E o \in {cksum(loaded, files, directories, unreadable)} :
            /\ MainRan("hash", o, o.raised)
            /\ Called([ NoOutcome EXCEPT !.op = "hash", !.files = files,
                            !.directories = directories,
                            !.r = o.r, !.raised = o.raised, !.failed = o.failed,
                            !.why = o.why, !.hash_count = o.hash_count ])

MainUpdate ==
    \E files \in file_lists, directories \in directory_lists :
        \E o \in {update(loaded, files, directories)} :
            /\ MainRan("update", o, FALSE)
            /\ Called([ NoOutcome EXCEPT !.op = "update", !.files = files,
                            !.directories = directories, !.r = o.r,
                            !.new_count = o.new_count, !.changed_count = o.changed_count,
                            !.removed_hash_count = o.removed_hash_count,
                            !.removed_entry_count = o.removed_entry_count ])

MainVerify ==
    \E files \in file_lists, directories \in directory_lists :
      \E unreadable \in unreadable_sets(files) :
        \E o \in {verify(loaded, files, directories, unreadable)} :
            /\ MainRan("verify", o, o.raised)
            /\ Called([ NoOutcome EXCEPT !.op = "verify", !.files = files,
                            !.directories = directories,
                            !.r = o.r, !.raised = o.raised,
                            !.missing_count = o.missing_count, !.new_count = o.new_count,
                            !.mismatch_count = o.mismatch_count,
                            !.hash_changed_count = o.hash_changed_count ])

NextMain ==
    \/ MainCount
    \/ MainAdd
    \/ MainHash
    \/ MainUpdate
    \/ MainVerify
    \/ CreateFile
    \/ Mkdir
    \/ Remove
    \/ ReplaceWithDirectory
    \/ ReplaceWithFile
    \/ Chmod
    \/ Chown
    \/ WriteFile

SpecMain == Init /\ [][NextMain]_vars

(* ------------------------------- C13 ----------------------------------- *)

\* C13: when sha256file has returned, or has been left by an exception, the
\* file handle it opened is closed.
Cex_C13_HandleReleased == sha.pc \in {"done", "raised"} => ~sha.open

\* the statement-by-statement run returns what sha256file is modelled to return
ShaResultAgrees == sha.pc = "done" => sha.result = sha256file(sha.fpath)

(* ------------------------------- C19 ----------------------------------- *)

\* the step is a run of the program that ended with main returning failure
FailedRun ==
    /\ fsops' = fsops
    /\ last'.op \in {"add", "hash", "verify"}
    /\ proc'.action = last'.op
    /\ ~last'.r
    /\ ~last'.raised

FailedRunKeepsDatabase ==
    [][ (fsops' = fsops /\ ~last'.r) => (db' = db /\ ~proc'.saved) ]_vars

\* loading a saved store gives the store back
SaveLoadRoundTrip == db.isfile /\ last.r => read_db(db) = data

====
